---- MODULE Spec2Model ----
(***************************************************************************)
(* A model of the cursor-based doubly-linked list of src/src/lib.rs:       *)
(* LinkedList, Node, Cursor and CursorMut.                                 *)
(*                                                                         *)
(* Nodes are allocations.  Every `box Node::new(..)` creates a fresh       *)
(* allocation identity (1, 2, ...); `Box::from_raw(..)` followed by the    *)
(* drop of the box releases it, and what a released node holds is          *)
(* indeterminate.  An operation that dereferences a released node has      *)
(* undefined behaviour: no outcome of it is singled out, the run leaves    *)
(* the defined executions of the program and is recorded as                *)
(* fault = "use_after_free".  Copying a dangling pointer is not a fault.   *)
(*                                                                         *)
(* usize arithmetic is modelled modulo UsizeModulus.  A build with         *)
(* overflow checks (overflow_checks = TRUE, the debug profile) panics on   *)
(* overflow; a build without them wraps.  A remainder by zero panics in    *)
(* both.  A panic or undefined behaviour ends the run: it is recorded in   *)
(* `fault` and the heap of the ended run is not represented any more.      *)
(***************************************************************************)
EXTENDS Integers, Sequences, FiniteSets

\* ------------------------------------------------------------------ bounds
MaxNodes == 6          \* size of the node pool; longest list a test driver builds
MaxAlloc == 3          \* allocations made in one run of the free-running program
UsizeModulus == 16     \* usize arithmetic is modulo this (2^64 in the code)

Node == 1..MaxNodes
None == 0
OptNode == Node \cup {None}
\* The program holds LinkedList values in two places, as the tests do
\* (`list` and `tail` in test_split, `list` and `list2` in len).
ListId == {1, 2}
\* The code is generic in T and never inspects an element, so the elements
\* are labels: the k-th element handed to the list is k-1.
Elem == 0..(MaxNodes - 1)
NoElem == -1

VARIABLES
    next,             \* Node.next      : [Node -> OptNode]
    prev,             \* Node.prev      : [Node -> OptNode]
    element,          \* Node.element   : [Node -> Elem \cup {NoElem}]
    nalloc,           \* number of nodes allocated so far (nodes 1..nalloc)
    released,         \* [Node -> 0..1]: 1 when the node's box was dropped
    head,             \* LinkedList.head : [ListId -> OptNode]
    tail,             \* LinkedList.tail : [ListId -> OptNode]
    len,              \* LinkedList.len  : [ListId -> 0..UsizeModulus-1]
    live,             \* [ListId -> BOOLEAN]: the slot holds a LinkedList value
    kind,             \* "none", "Cursor" or "CursorMut": the cursor in scope
    list,             \* the list the cursor borrows (0 when there is none)
    current,          \* Cursor.current / CursorMut.current
    current_len,      \* CursorMut.current_len
    fault,            \* "none", or the panic / undefined behaviour that ended the run
    overflow_checks,  \* the build profile: TRUE = overflow checks on
    pc,               \* position of the test driver ("free": no driver)
    n,                \* the driver's n: its list is from_iter(0..n)
    at,               \* the driver's i: c.current() when it cuts (NoElem at ghost)
    cut,              \* "none", "split" or "split_before": the cut the driver made
    joined,           \* the driver spliced the cut-off list back with insert_list
    visited,          \* elements the driver's walking cursor has visited, in order
    last              \* the operation executed last (history)

vars == <<next, prev, element, nalloc, released, head, tail, len, live, kind,
          list, current, current_len, fault, overflow_checks, pc, n, at,
          cut, joined, visited, last>>

\* The program state as one record, so that the operations compose.
St ==
    [next |-> next, prev |-> prev, element |-> element, nalloc |-> nalloc,
     released |-> released, head |-> head, tail |-> tail, len |-> len,
     live |-> live, kind |-> kind, list |-> list, current |-> current,
     current_len |-> current_len, ret |-> NoElem, fault |-> fault,
     oc |-> overflow_checks, uaf |-> FALSE]

\* A panic: the run stops here with the state it has.
Panic(s, why) == [s EXCEPT !.fault = why]

\* Dereferencing the nodes of `nodes`: undefined behaviour if one was released.
Touch(s, nodes) ==
    IF \E x \in nodes \ {None} : s.released[x] > 0
    THEN [s EXCEPT !.uaf = TRUE]
    ELSE s

\* ------------------------------------------------------------ LinkedList
FreeSlot(s) == CHOOSE l \in ListId : ~s.live[l] /\ \A k \in ListId : ~s.live[k] => l <= k
HasFreeSlot(s) == \E l \in ListId : ~s.live[l]

\* LinkedList::new() placed in slot l.
new(s, l) ==
    [s EXCEPT !.head[l] = None, !.tail[l] = None, !.len[l] = 0, !.live[l] = TRUE]

\* LinkedList::cursor(): a Cursor at the ghost position.
cursor(s, l) ==
    [s EXCEPT !.kind = "Cursor", !.list = l, !.current = None, !.current_len = 0]

\* LinkedList::cursor_mut(): a CursorMut at the ghost position with offset 0.
cursor_mut(s, l) ==
    [s EXCEPT !.kind = "CursorMut", !.list = l, !.current = None, !.current_len = 0]

\* The cursor goes out of scope (it has no destructor).
NoCursor(s) ==
    [s EXCEPT !.kind = "none", !.list = 0, !.current = None, !.current_len = 0]

\* ---------------------------------------------------------------- Cursor
\* Cursor::next / CursorMut::next: the node a move_next would land on.
CursorMut_next(s) ==
    IF s.current = None THEN s.head[s.list] ELSE s.next[s.current]

\* Cursor::prev / CursorMut::prev.
CursorMut_prev(s) ==
    IF s.current = None THEN s.tail[s.list] ELSE s.prev[s.current]

\* Cursor::move_next.
Cursor_move_next(s) ==
    [Touch(s, {s.current}) EXCEPT !.current = CursorMut_next(s)]

\* Mutant of Cursor::move_prev: from ghost it goes to the head, not the tail.
Cursor_move_prev_from_ghost_to_head(s) ==
    [Touch(s, {s.current}) EXCEPT
        !.current = IF s.current = None THEN s.head[s.list] ELSE s.prev[s.current]]

\* Cursor::move_prev.
Cursor_move_prev(s) ==
    [Touch(s, {s.current}) EXCEPT !.current = CursorMut_prev(s)]

\* Cursor::current / CursorMut::current: the element under the cursor.
Cursor_current(s) ==
    [Touch(s, {s.current}) EXCEPT
        !.ret = IF s.current = None THEN NoElem ELSE s.element[s.current]]

\* ------------------------------------------------------------- CursorMut
\* Mutant of inc_len: the offset is incremented and not reduced.
inc_len_without_wrap(s) ==
    LET a == s.current_len + 1
    IN  IF a >= UsizeModulus /\ s.oc THEN Panic(s, "add_overflow")
        ELSE [s EXCEPT !.current_len = a % UsizeModulus]

\* CursorMut::inc_len: current_len += 1; current_len %= list.len + 1.
inc_len(s) ==
    LET a == s.current_len + 1
        d == s.len[s.list] + 1
        s1 == [s EXCEPT !.current_len = a % UsizeModulus]
    IN  IF a >= UsizeModulus /\ s.oc THEN Panic(s, "add_overflow")
        ELSE IF d >= UsizeModulus
             THEN IF s.oc THEN Panic(s1, "add_overflow") ELSE Panic(s1, "rem_by_zero")
             ELSE [s EXCEPT !.current_len = (a % UsizeModulus) % d]

\* CursorMut::dec_len: current_len += list.len; current_len %= list.len + 1.
dec_len(s) ==
    LET a == s.current_len + s.len[s.list]
        d == s.len[s.list] + 1
        s1 == [s EXCEPT !.current_len = a % UsizeModulus]
    IN  IF a >= UsizeModulus /\ s.oc THEN Panic(s, "add_overflow")
        ELSE IF d >= UsizeModulus
             THEN IF s.oc THEN Panic(s1, "add_overflow") ELSE Panic(s1, "rem_by_zero")
             ELSE [s EXCEPT !.current_len = (a % UsizeModulus) % d]

\* CursorMut::move_next: inc_len, then current = next().
CursorMut_move_next(s) ==
    LET s1 == inc_len(s)
    IN  IF s1.fault # "none" THEN s1
        ELSE [Touch(s1, {s1.current}) EXCEPT !.current = CursorMut_next(s1)]

\* CursorMut::move_prev: dec_len, then current = prev().
CursorMut_move_prev(s) ==
    LET s1 == dec_len(s)
    IN  IF s1.fault # "none" THEN s1
        ELSE [Touch(s1, {s1.current}) EXCEPT !.current = CursorMut_prev(s1)]

\* CursorMut::as_cursor: a Cursor at the position of the CursorMut.
as_cursor(s) == [s EXCEPT !.kind = "Cursor", !.current_len = 0]

\* `self.list.len += k`.
AddLen(s, k) ==
    LET a == s.len[s.list] + k
    IN  IF a >= UsizeModulus /\ s.oc THEN Panic(s, "add_overflow")
        ELSE [s EXCEPT !.len[s.list] = a % UsizeModulus]

\* box Node::new(item): a fresh allocation with both links absent.
Node_new(s, item) ==
    [s EXCEPT !.nalloc = s.nalloc + 1,
              !.next[s.nalloc + 1] = None,
              !.prev[s.nalloc + 1] = None,
              !.element[s.nalloc + 1] = item]

\* Mutant of insert: a node inserted after the last node does not become
\* the list's tail.
insert_keeps_tail(s, item) ==
    LET node == s.nalloc + 1
        nx == CursorMut_next(s)
        cur == s.current
        s1 == Touch(Node_new(s, item), {cur, nx})
        s2 == [s1 EXCEPT !.prev[node] = cur, !.next[node] = nx]
        s3 == IF nx = None THEN s2 ELSE [s2 EXCEPT !.prev[nx] = node]
        s4 == IF cur = None THEN [s3 EXCEPT !.head[s.list] = node]
                            ELSE [s3 EXCEPT !.next[cur] = node]
    IN  AddLen(s4, 1)

\* CursorMut::insert: a new node between the cursor and its next.
insert(s, item) ==
    LET node == s.nalloc + 1
        nx == CursorMut_next(s)
        cur == s.current
        s1 == Touch(Node_new(s, item), {cur, nx})
        s2 == [s1 EXCEPT !.prev[node] = cur, !.next[node] = nx]
        s3 == IF nx = None THEN [s2 EXCEPT !.tail[s.list] = node]
                           ELSE [s2 EXCEPT !.prev[nx] = node]
        s4 == IF cur = None THEN [s3 EXCEPT !.head[s.list] = node]
                            ELSE [s3 EXCEPT !.next[cur] = node]
    IN  AddLen(s4, 1)

\* Mutant of insert_before: the node is linked after the cursor, as insert does.
insert_before_links_after(s, item) == insert(s, item)

\* CursorMut::insert_before: a new node between the cursor's prev and the cursor.
insert_before(s, item) ==
    LET node == s.nalloc + 1
        pv == CursorMut_prev(s)
        cur == s.current
        s1 == Touch(Node_new(s, item), {cur, pv})
        s2 == [s1 EXCEPT !.prev[node] = pv, !.next[node] = cur]
        s3 == IF pv = None THEN [s2 EXCEPT !.head[s.list] = node]
                           ELSE [s2 EXCEPT !.next[pv] = node]
        s4 == IF cur = None THEN [s3 EXCEPT !.tail[s.list] = node]
                            ELSE [s3 EXCEPT !.prev[cur] = node]
        s5 == AddLen(s4, 1)
    IN  IF s5.fault # "none" THEN s5 ELSE inc_len(s5)

\* The box made by Box::from_raw(node) is dropped: the node is released.
Release(s, node) ==
    [s EXCEPT !.released[node] = 1, !.next[node] = None, !.prev[node] = None,
              !.element[node] = NoElem]

\* CursorMut::pop: remove and return the node after the cursor.
pop(s) ==
    LET l == s.list
        cur == s.current
        node == CursorMut_next(s)
        nn == s.next[node]
        s1 == [s EXCEPT !.len[l] = @ - 1, !.current_len = @ % s.len[l]]
        s2 == Touch(s1, {cur, node, nn})
        s3 == IF cur = None THEN [s2 EXCEPT !.head[l] = nn]
                            ELSE [s2 EXCEPT !.next[cur] = nn]
        s4 == IF nn = None THEN [s3 EXCEPT !.tail[l] = cur]
                           ELSE [s3 EXCEPT !.prev[nn] = cur]
    IN  IF node = None THEN [Touch(s, {cur}) EXCEPT !.ret = NoElem]
        ELSE IF s.len[l] = 0
             THEN IF s.oc THEN Panic(Touch(s, {cur}), "pop_underflow")
                  ELSE Panic([Touch(s, {cur}) EXCEPT !.len[l] = UsizeModulus - 1],
                             "rem_by_zero")
             ELSE [Release(s4, node) EXCEPT !.ret = s.element[node]]

\* CursorMut::pop_prev: remove and return the node before the cursor.
pop_prev(s) ==
    LET l == s.list
        cur == s.current
        node == CursorMut_prev(s)
        np == s.prev[node]
        s1 == dec_len([s EXCEPT !.len[l] = @ - 1])
        s2 == Touch(s1, {cur, node, np})
        s3 == IF np = None THEN [s2 EXCEPT !.head[l] = cur]
                           ELSE [s2 EXCEPT !.next[np] = cur]
        s4 == IF cur = None THEN [s3 EXCEPT !.tail[l] = np]
                            ELSE [s3 EXCEPT !.prev[cur] = np]
    IN  IF node = None THEN [Touch(s, {cur}) EXCEPT !.ret = NoElem]
        ELSE IF s.len[l] = 0
             THEN IF s.oc THEN Panic(Touch(s, {cur}), "pop_prev_underflow")
                  ELSE dec_len([Touch(s, {cur}) EXCEPT !.len[l] = UsizeModulus - 1])
             ELSE IF s1.fault # "none" THEN s1
             ELSE [Release(s4, node) EXCEPT !.ret = s.element[node]]

\* `while c.pop().is_some() {}`.
RECURSIVE pop_all(_)
pop_all(s) ==
    LET s1 == pop(s)
    IN  IF s1.fault # "none" \/ s1.ret = NoElem THEN s1 ELSE pop_all(s1)

\* The cursor of s put back after a callee used one of its own.
WithCursorOf(s, t) ==
    [t EXCEPT !.kind = s.kind, !.list = s.list, !.current = s.current,
              !.current_len = s.current_len, !.ret = s.ret]

\* The LinkedList value of slot l is gone.
Vacate(s, l) ==
    [s EXCEPT !.head[l] = None, !.tail[l] = None, !.len[l] = 0, !.live[l] = FALSE]

\* Drop for LinkedList: a CursorMut at ghost pops until pop returns None.
drop(s, l) ==
    LET s1 == pop_all(cursor_mut(s, l))
    IN  IF s1.fault # "none" THEN WithCursorOf(s, s1)
        ELSE Vacate(WithCursorOf(s, s1), l)

\* FromIterator::from_iter: insert_before at ghost for every element.
RECURSIVE insert_each(_, _)
insert_each(s, S) ==
    IF S = <<>> \/ s.fault # "none" THEN s
    ELSE insert_each(insert_before(s, Head(S)), Tail(S))

from_iter(s, S, l) ==
    WithCursorOf(s, insert_each(cursor_mut(new(s, l), l), S))

\* CursorMut::insert_list: splice list o between the cursor and its next.
\* `list` is taken by value and goes out of scope when the call returns.
insert_list(s, o) ==
    LET l == s.list
        h == s.head[o]
        t == s.tail[o]
        cur == s.current
        nx == CursorMut_next(s)
        s1 == [Touch(s, {h, t, cur, nx}) EXCEPT !.prev[h] = cur, !.next[t] = nx]
        s2 == IF nx = None THEN [s1 EXCEPT !.tail[l] = t]
                           ELSE [s1 EXCEPT !.prev[nx] = t]
        s3 == IF cur = None THEN [s2 EXCEPT !.head[l] = h]
                            ELSE [s2 EXCEPT !.next[cur] = h]
        s4 == AddLen(s3, s.len[o])
    IN  IF h = None /\ t = None THEN drop(s, o)
        ELSE IF h = None \/ t = None THEN Panic(s, "unreachable")
        ELSE IF s4.fault # "none" THEN s4
        ELSE drop(s4, o)

\* Mutant of insert_list_before: the arm for an empty list is missing, so
\* the absent head and tail of the empty list are linked in like any other.
insert_list_before_without_empty_arm(s, o) ==
    LET l == s.list
        h == s.head[o]
        t == s.tail[o]
        cur == s.current
        pv == CursorMut_prev(s)
        s0 == Touch(s, {h, t, cur, pv})
        s1 == IF h = None \/ t = None THEN s0
              ELSE [s0 EXCEPT !.prev[h] = pv, !.next[t] = cur]
        s2 == IF pv = None THEN [s1 EXCEPT !.head[l] = h]
                           ELSE [s1 EXCEPT !.next[pv] = h]
        s3 == IF cur = None THEN [s2 EXCEPT !.tail[l] = t]
                            ELSE [s2 EXCEPT !.prev[cur] = t]
        s4 == AddLen(s3, s.len[o])
        a == s.current_len + s.len[o]
        s5 == IF s.current_len = 0 THEN s4
              ELSE IF a >= UsizeModulus /\ s.oc THEN Panic(s4, "add_overflow")
              ELSE [s4 EXCEPT !.current_len = a % UsizeModulus]
    IN  IF (h = None) # (t = None) THEN Panic(s, "unreachable")
        ELSE IF s4.fault # "none" THEN s4
        ELSE IF s5.fault # "none" THEN s5
        ELSE drop(s5, o)

\* CursorMut::insert_list_before: splice list o between the cursor's prev
\* and the cursor.
insert_list_before(s, o) ==
    LET l == s.list
        h == s.head[o]
        t == s.tail[o]
        cur == s.current
        pv == CursorMut_prev(s)
        s1 == [Touch(s, {h, t, cur, pv}) EXCEPT !.prev[h] = pv, !.next[t] = cur]
        s2 == IF pv = None THEN [s1 EXCEPT !.head[l] = h]
                           ELSE [s1 EXCEPT !.next[pv] = h]
        s3 == IF cur = None THEN [s2 EXCEPT !.tail[l] = t]
                            ELSE [s2 EXCEPT !.prev[cur] = t]
        s4 == AddLen(s3, s.len[o])
        a == s.current_len + s.len[o]
        s5 == IF s.current_len = 0 THEN s4
              ELSE IF a >= UsizeModulus /\ s.oc THEN Panic(s4, "add_overflow")
              ELSE [s4 EXCEPT !.current_len = a % UsizeModulus]
    IN  IF h = None /\ t = None THEN drop(s, o)
        ELSE IF h = None \/ t = None THEN Panic(s, "unreachable")
        ELSE IF s4.fault # "none" THEN s4
        ELSE IF s5.fault # "none" THEN s5
        ELSE drop(s5, o)

\* Mutant of split_at: the lists get their ends and lengths but the link
\* between the two halves is left in place.
split_at_keeps_link(s, cur, split_len, r) ==
    LET l == s.list
        total_len == s.len[l]
        nx == s.next[cur]
        new_len == (total_len - split_len + UsizeModulus) % UsizeModulus
        old_len == (total_len - new_len + UsizeModulus) % UsizeModulus
    IN  IF nx = None THEN new(Touch(s, {cur}), r)
        ELSE [Touch(s, {cur, nx}) EXCEPT
                 !.tail[l] = cur, !.len[l] = old_len,
                 !.head[r] = nx, !.tail[r] = s.tail[l], !.len[r] = new_len,
                 !.live[r] = TRUE]

\* CursorMut::split_at: cut after node cur; the nodes after it go to a new
\* list of length total_len - split_len, placed in slot r.
split_at(s, cur, split_len, r) ==
    LET l == s.list
        total_len == s.len[l]
        nx == s.next[cur]
        new_tail == s.tail[l]
        s1 == [Touch(s, {cur}) EXCEPT !.tail[l] = None]
        new_len == (total_len - split_len + UsizeModulus) % UsizeModulus
        old_len == (total_len - new_len + UsizeModulus) % UsizeModulus
        s2 == [Touch(s1, {nx}) EXCEPT !.next[cur] = None, !.prev[nx] = None]
        s3 == [s2 EXCEPT !.tail[l] = cur, !.len[l] = old_len]
    IN  IF nx = None THEN new(Touch(s, {cur}), r)
        ELSE IF s.oc /\ split_len > total_len THEN Panic(s1, "split_at_underflow")
        ELSE [s3 EXCEPT !.head[r] = nx, !.tail[r] = new_tail, !.len[r] = new_len,
                        !.live[r] = TRUE]

\* std::mem::replace(self.list, LinkedList::new()): the whole list moves to
\* slot r and the original becomes empty.
replace(s, r) ==
    LET l == s.list
    IN  [s EXCEPT !.head[r] = s.head[l], !.tail[r] = s.tail[l], !.len[r] = s.len[l],
                  !.live[r] = TRUE,
                  !.head[l] = None, !.tail[l] = None, !.len[l] = 0]

\* Mutant of split: the offset is taken to count the elements strictly
\* before the cursor, so the retained length is one short.
split_one_short(s, r) ==
    NoCursor(IF s.current = None THEN replace(s, r)
             ELSE split_at(s, s.current, s.current_len - 1, r))

\* CursorMut::split: cut after the cursor; consumes the cursor.
split(s, r) ==
    NoCursor(IF s.current = None THEN replace(s, r)
             ELSE split_at(s, s.current, s.current_len, r))

\* Mutant of split_before: at a node without a previous element nothing is
\* cut off (an empty list is returned and the original keeps everything).
split_before_keeps_all_at_head(s, r) ==
    LET pv == s.prev[s.current]
        s1 == Touch(s, {s.current})
    IN  NoCursor(
          IF s.current = None THEN replace(s, r)
          ELSE IF pv = None THEN new(s1, r)
          ELSE IF s.current_len = 0
               THEN IF s.oc THEN Panic(s1, "split_before_underflow")
                    ELSE split_at(s1, pv, UsizeModulus - 1, r)
               ELSE split_at(s1, pv, s.current_len - 1, r))

\* CursorMut::split_before: cut before the cursor; consumes the cursor.
split_before(s, r) ==
    LET pv == s.prev[s.current]
        s1 == Touch(s, {s.current})
    IN  NoCursor(
          IF s.current = None THEN replace(s, r)
          ELSE IF pv = None THEN replace(s1, r)
          ELSE IF s.current_len = 0
               THEN IF s.oc THEN Panic(s1, "split_before_underflow")
                    ELSE split_at(s1, pv, UsizeModulus - 1, r)
               ELSE split_at(s1, pv, s.current_len - 1, r))

\* ------------------------------------------------------------ the program
\* The run ends in a fault: the panic unwinds (or the undefined behaviour
\* takes the run out of the defined executions) and nothing of the heap is
\* observed again; only the fault is recorded.
Stop(why) ==
    /\ next' = [x \in Node |-> None]
    /\ prev' = [x \in Node |-> None]
    /\ element' = [x \in Node |-> NoElem]
    /\ nalloc' = 0
    /\ released' = [x \in Node |-> 0]
    /\ head' = [l \in ListId |-> None]
    /\ tail' = [l \in ListId |-> None]
    /\ len' = [l \in ListId |-> 0]
    /\ live' = [l \in ListId |-> FALSE]
    /\ kind' = "none"
    /\ list' = 0
    /\ current' = None
    /\ current_len' = 0
    /\ fault' = why
    /\ UNCHANGED overflow_checks

\* The state after an operation that computed s.
Commit(s) ==
    IF s.uaf THEN Stop("use_after_free")
    ELSE IF s.fault # "none" THEN Stop(s.fault)
    ELSE /\ next' = s.next
         /\ prev' = s.prev
         /\ element' = s.element
         /\ nalloc' = s.nalloc
         /\ released' = s.released
         /\ head' = s.head
         /\ tail' = s.tail
         /\ len' = s.len
         /\ live' = s.live
         /\ kind' = s.kind
         /\ list' = s.list
         /\ current' = s.current
         /\ current_len' = s.current_len
         /\ fault' = s.fault
         /\ UNCHANGED overflow_checks

Running == fault = "none"
HasMut == Running /\ kind = "CursorMut"
\* A step of the free-running program: the driver is not involved.
Did(op) == last' = op /\ UNCHANGED <<pc, n, at, cut, joined, visited>>

EmptyHeap ==
    /\ next = [x \in Node |-> None]
    /\ prev = [x \in Node |-> None]
    /\ element = [x \in Node |-> NoElem]
    /\ nalloc = 0
    /\ released = [x \in Node |-> 0]
    /\ head = [l \in ListId |-> None]
    /\ tail = [l \in ListId |-> None]
    /\ len = [l \in ListId |-> 0]
    /\ live = [l \in ListId |-> FALSE]
    /\ kind = "none"
    /\ list = 0
    /\ current = None
    /\ current_len = 0
    /\ fault = "none"

Init ==
    /\ EmptyHeap
    /\ overflow_checks \in BOOLEAN
    /\ pc = "free"
    /\ n = 0
    /\ at = NoElem
    /\ cut = "none"
    /\ joined = FALSE
    /\ visited = <<>>
    /\ last = "init"

\* The next m elements, as the sequence handed to from_iter.
Items(first, m) == [k \in 1..m |-> first + k - 1]

New ==
    /\ Running /\ HasFreeSlot(St)
    /\ Commit(new(St, FreeSlot(St)))
    /\ Did("new")

FromIter ==
    /\ Running /\ HasFreeSlot(St)
    /\ \E m \in 0..(MaxAlloc - nalloc) :
          Commit(from_iter(St, Items(nalloc, m), FreeSlot(St)))
    /\ Did("from_iter")

GetCursorMut ==
    /\ Running
    /\ \E l \in ListId : live[l] /\ Commit(cursor_mut(St, l))
    /\ Did("cursor_mut")

MoveNext == HasMut /\ Commit(CursorMut_move_next(St)) /\ Did("move_next")
MovePrev == HasMut /\ Commit(CursorMut_move_prev(St)) /\ Did("move_prev")

Insert ==
    /\ HasMut /\ nalloc < MaxAlloc
    /\ Commit(insert(St, nalloc))
    /\ Did("insert")

InsertBefore ==
    /\ HasMut /\ nalloc < MaxAlloc
    /\ Commit(insert_before(St, nalloc))
    /\ Did("insert_before")

InsertList ==
    /\ HasMut
    /\ \E o \in ListId : live[o] /\ o # list /\ Commit(insert_list(St, o))
    /\ Did("insert_list")

InsertListBefore ==
    /\ HasMut
    /\ \E o \in ListId : live[o] /\ o # list /\ Commit(insert_list_before(St, o))
    /\ Did("insert_list_before")

Pop == HasMut /\ Commit(pop(St)) /\ Did("pop")
PopPrev == HasMut /\ Commit(pop_prev(St)) /\ Did("pop_prev")

Split ==
    /\ HasMut /\ HasFreeSlot(St)
    /\ Commit(split(St, FreeSlot(St)))
    /\ Did("split")

SplitBefore ==
    /\ HasMut /\ HasFreeSlot(St)
    /\ Commit(split_before(St, FreeSlot(St)))
    /\ Did("split_before")

\* A list goes out of scope; a cursor borrowing it ended before.
Drop ==
    /\ Running
    /\ \E l \in ListId :
          /\ live[l]
          /\ Commit(drop(IF list = l THEN NoCursor(St) ELSE St, l))
    /\ Did("drop")

Next ==
    \/ New \/ FromIter \/ GetCursorMut
    \/ MoveNext \/ MovePrev
    \/ Insert \/ InsertBefore \/ InsertList \/ InsertListBefore
    \/ Pop \/ PopPrev \/ Split \/ SplitBefore \/ Drop

Spec == Init /\ [][Next]_vars

\* The program without insert_list and insert_list_before: every behaviour of
\* it is a behaviour of Spec.
NextNoSplice ==
    \/ New \/ FromIter \/ GetCursorMut
    \/ MoveNext \/ MovePrev
    \/ Insert \/ InsertBefore
    \/ Pop \/ PopPrev \/ Split \/ SplitBefore \/ Drop

SpecNoSplice == Init /\ [][NextNoSplice]_vars

\* ------------------------------------------------------- the test drivers
\* The drivers of the repository's tests (cmp_iterator, mut_cmp_iterator,
\* test_split of split and of split_before), with n and i free, followed by
\* the splice that puts the two halves of a split together again.

\* Forward traversal as Debug::fmt and cmp_iterator do it: the nodes met from
\* head by following next until it is absent.
RECURSIVE Chain(_, _)
Chain(x, fuel) ==
    IF x = None \/ fuel = 0 THEN <<>>
    ELSE <<x>> \o Chain(next[x], fuel - 1)

Forward(l) == Chain(head[l], MaxNodes + 1)

\* Backward traversal: the nodes met from tail by following prev.
RECURSIVE ChainBack(_, _)
ChainBack(x, fuel) ==
    IF x = None \/ fuel = 0 THEN <<>>
    ELSE <<x>> \o ChainBack(prev[x], fuel - 1)

Backward(l) == ChainBack(tail[l], MaxNodes + 1)

\* The elements of a list in forward order.
Elements(l) == [k \in 1..Len(Forward(l)) |-> element[Forward(l)[k]]]

\* The Rust range a..b as a sequence.
Range(a, b) == [k \in 1..(IF b > a THEN b - a ELSE 0) |-> a + k - 1]

Reverse(S) == [k \in 1..Len(S) |-> S[Len(S) + 1 - k]]

Bad(s) == s.uaf \/ s.fault # "none"

TestInit ==
    /\ EmptyHeap
    /\ overflow_checks \in BOOLEAN
    /\ pc = "start"
    /\ n = 0
    /\ at = NoElem
    /\ cut = "none"
    /\ joined = FALSE
    /\ visited = <<>>
    /\ last = "init"

\* let mut list = LinkedList::from_iter(0..n);
T_FromIter ==
    /\ Running /\ pc = "start"
    /\ \E m \in 0..MaxNodes :
          /\ n' = m
          /\ Commit(from_iter(St, Range(0, m), 1))
    /\ pc' = "built"
    /\ UNCHANGED <<at, cut, joined, visited>>
    /\ last' = "from_iter"

\* cmp_iterator / mut_cmp_iterator: let mut cursor = list.cursor() or
\* list.cursor_mut(), to walk forwards or backwards.
T_Walk ==
    /\ Running /\ pc \in {"built", "rejoined"}
    /\ \E d \in {"forward", "reverse"} : pc' = d
    /\ \/ Commit(cursor(St, 1))
       \/ Commit(cursor_mut(St, 1))
    /\ visited' = <<>>
    /\ UNCHANGED <<n, at, cut, joined>>
    /\ last' = "cursor"

\* cursor.move_next() or move_prev(), then cursor.current(): an element is
\* recorded, the absent result ends the walk.
T_WalkStep ==
    /\ Running /\ pc \in {"forward", "reverse"}
    /\ LET s1 == IF kind = "Cursor"
                 THEN (IF pc = "forward" THEN Cursor_move_next(St)
                                         ELSE Cursor_move_prev(St))
                 ELSE (IF pc = "forward" THEN CursorMut_move_next(St)
                                         ELSE CursorMut_move_prev(St))
           s2 == IF Bad(s1) THEN s1 ELSE Cursor_current(s1)
       IN  /\ Commit(s2)
           /\ visited' = IF Bad(s2) \/ s2.ret = NoElem THEN visited
                         ELSE Append(visited, s2.ret)
           /\ pc' = IF Bad(s2) \/ s2.ret # NoElem THEN pc
                    ELSE IF pc = "forward" THEN "forward_done" ELSE "reverse_done"
    /\ UNCHANGED <<n, at, cut, joined>>
    /\ last' = "walk"

\* test_split: let mut c = list.cursor_mut();
T_CursorMut ==
    /\ Running /\ pc = "built"
    /\ Commit(cursor_mut(St, 1))
    /\ pc' = "moving"
    /\ UNCHANGED <<n, at, cut, joined, visited>>
    /\ last' = "cursor_mut"

\* test_split: c.move_next();
T_MoveNext ==
    /\ Running /\ pc = "moving"
    /\ Commit(CursorMut_move_next(St))
    /\ UNCHANGED <<pc, n, at, cut, joined, visited>>
    /\ last' = "move_next"

\* test_split of split: i is c.current(); let tail = c.split();
T_Split ==
    /\ Running /\ pc = "moving"
    /\ at' = Cursor_current(St).ret
    /\ Commit(split(St, 2))
    /\ pc' = "cut"
    /\ cut' = "split"
    /\ UNCHANGED <<n, joined, visited>>
    /\ last' = "split"

\* test_split of split_before: let tail = c.split_before();
T_SplitBefore ==
    /\ Running /\ pc = "moving"
    /\ at' = Cursor_current(St).ret
    /\ Commit(split_before(St, 2))
    /\ pc' = "cut"
    /\ cut' = "split_before"
    /\ UNCHANGED <<n, joined, visited>>
    /\ last' = "split_before"

\* Back to the cut point of a split: a new CursorMut on the retained list ...
T_CursorMutAgain ==
    /\ Running /\ pc = "cut" /\ cut = "split"
    /\ Commit(cursor_mut(St, 1))
    /\ pc' = "seek"
    /\ UNCHANGED <<n, at, cut, joined, visited>>
    /\ last' = "cursor_mut"

\* ... moved to the retained list's tail (it stays at ghost on an empty list) ...
T_MovePrev ==
    /\ Running /\ pc = "seek"
    /\ Commit(CursorMut_move_prev(St))
    /\ pc' = "at_cut"
    /\ UNCHANGED <<n, at, cut, joined, visited>>
    /\ last' = "move_prev"

\* ... where the list that split returned is spliced in again.
T_InsertList ==
    /\ Running /\ pc = "at_cut"
    /\ Commit(NoCursor(insert_list(St, 2)))
    /\ pc' = "rejoined"
    /\ joined' = TRUE
    /\ UNCHANGED <<n, at, cut, visited>>
    /\ last' = "insert_list"

TestNext ==
    \/ T_FromIter \/ T_Walk \/ T_WalkStep
    \/ T_CursorMut \/ T_MoveNext \/ T_Split \/ T_SplitBefore
    \/ T_CursorMutAgain \/ T_MovePrev \/ T_InsertList

SpecTest == TestInit /\ [][TestNext]_vars

\* ------------------------------------------------------------ the claims
Live == {l \in ListId : live[l]}

\* C1: every live list has len equal to the number of nodes reached by
\* following next from head until absent.
C1_LenCountsNodes ==
    \A l \in Live : len[l] = Len(Forward(l))

\* Nodes reachable from the head or the tail of list l.
Reachable(l) ==
    {Forward(l)[k] : k \in 1..Len(Forward(l))}
        \cup {Backward(l)[k] : k \in 1..Len(Backward(l))}

\* C3: for every node A reachable from the head or tail of a live list, if
\* A.next is B then B.prev is A, and if A.prev is B then B.next is A.
C3_LinksSymmetric ==
    \A l \in Live : \A a \in Reachable(l) :
        /\ next[a] # None => prev[next[a]] = a
        /\ prev[a] # None => next[prev[a]] = a

\* C9: no sequence of operations panics: the subtractions of pop, pop_prev,
\* split_before and split_at do not underflow, the unreachable!() arms are
\* not reached, and no other arithmetic fault ends the run.
Panics ==
    {"pop_underflow", "pop_prev_underflow", "split_before_underflow",
     "split_at_underflow", "unreachable", "rem_by_zero", "add_overflow"}

C9_NoPanic == fault \notin Panics

\* Position of node x in the sequence F (0 when it is not there).
Pos(F, x) ==
    IF \E k \in 1..Len(F) : F[k] = x
    THEN CHOOSE k \in 1..Len(F) : F[k] = x
    ELSE 0

\* The part of the forward order of the cursor's list up to and including
\* the cursor (nothing at ghost), and the part after it.
UpToCursor == SubSeq(Forward(list), 1, Pos(Forward(list), current))
AfterCursor ==
    SubSeq(Forward(list), Pos(Forward(list), current) + 1, Len(Forward(list)))

\* C7: when insert_list(other) returns with other non-empty, the receiving
\* list is (nodes up to the cursor) ++ (other's nodes) ++ (nodes after the
\* cursor), its len has grown by other's len, the cursor and its offset are
\* unchanged, and no node has been released by the end of the call.
C7_InsertListKeepsNodes ==
    [][\A l, o \in ListId :
         (/\ HasMut /\ l = list /\ live[o] /\ o # l /\ head[o] # None
          /\ Commit(insert_list(St, o)))
         => \A A \in {UpToCursor \o Forward(o) \o AfterCursor} :
               /\ fault' = "none"
               /\ Forward(l)' = A
               /\ len'[l] = len[l] + len[o]
               /\ current' = current /\ current_len' = current_len
               /\ released' = released]_vars

\* C8: no node is released twice and no released node is used (either is
\* the fault "use_after_free"); no released node is the head or tail of a
\* live list, the target of a link of a node that is not released, or the
\* cursor's node; and once every list is dropped every node is released.
C8_ReleasedExactlyOnce ==
    /\ fault # "use_after_free"
    /\ \A l \in Live :
          /\ head[l] # None => released[head[l]] = 0
          /\ tail[l] # None => released[tail[l]] = 0
    /\ \A x \in 1..nalloc : released[x] = 0 =>
          /\ next[x] # None => released[next[x]] = 0
          /\ prev[x] # None => released[prev[x]] = 0
    /\ current # None => released[current] = 0
    /\ (Live = {} /\ fault = "none") => \A x \in 1..nalloc : released[x] = 1

\* The driver has cut list 1 with `which` and nothing else happened since.
JustCut(which) == pc = "cut" /\ cut = which

\* C2: on from_iter(0..n), a Cursor or CursorMut started at ghost and moved
\* with move_next visits 0, 1, .., n-1 in this order and is at ghost after
\* move n+1; moved with move_prev it visits n-1, .., 0 and is then at ghost.
C2_WalkVisitsInOrder ==
    (~joined /\ pc \in {"forward", "forward_done", "reverse", "reverse_done"}) =>
        LET S == IF pc \in {"forward", "forward_done"}
                 THEN Range(0, n) ELSE Reverse(Range(0, n))
        IN  /\ fault = "none"
            /\ Len(visited) <= n
            /\ visited = SubSeq(S, 1, Len(visited))
            /\ pc \in {"forward", "reverse"} =>
                  /\ (current = None) <=> (visited = <<>>)
                  /\ current # None => element[current] = visited[Len(visited)]
            /\ pc \in {"forward_done", "reverse_done"} =>
                  /\ visited = S
                  /\ current = None

C2_Witness ==
    /\ ~joined /\ pc = "reverse_done" /\ kind = "CursorMut"
    /\ n >= 3 /\ visited = Reverse(Range(0, n)) /\ fault = "none"

\* C4: split() of from_iter(0..n) by a fresh CursorMut moved by move_next
\* only.  At ghost the whole list is returned and the original is empty
\* (len 0, no head, no tail).  At the node of index i the original keeps
\* 0..=i with len i+1 and its tail is the cursor's node, the returned list
\* is i+1..n with len n-i-1, and no link joins node i and node i+1.
C4_SplitPartition ==
    JustCut("split") =>
        /\ fault = "none"
        /\ live[1] /\ live[2] /\ kind = "none"
        /\ IF at = NoElem
           THEN /\ Elements(2) = Range(0, n) /\ len[2] = n
                /\ Elements(1) = <<>> /\ len[1] = 0
                /\ head[1] = None /\ tail[1] = None
           ELSE /\ Elements(1) = Range(0, at + 1) /\ len[1] = at + 1
                /\ tail[1] # None /\ element[tail[1]] = at
                /\ next[tail[1]] = None
                /\ Elements(2) = Range(at + 1, n) /\ len[2] = n - at - 1
                /\ head[2] # None => prev[head[2]] = None
                /\ (head[2] = None) <=> (tail[2] = None)

C4_Witness ==
    /\ JustCut("split") /\ fault = "none" /\ n >= 4 /\ at = 1
    /\ len[1] = 2 /\ len[2] = n - 2 /\ Elements(2) = Range(2, n)

\* C5: split_before() of from_iter(0..n) by a fresh CursorMut moved by
\* move_next only.  At ghost or at the head element the whole list is
\* returned and the source is left empty; at the node of index i >= 1 the
\* source keeps 0..i with len i and the returned list is i..n with len n-i.
C5_SplitBeforePartition ==
    JustCut("split_before") =>
        /\ fault = "none"
        /\ live[1] /\ live[2] /\ kind = "none"
        /\ IF at = NoElem \/ at = 0
           THEN /\ Elements(2) = Range(0, n) /\ len[2] = n
                /\ Elements(1) = <<>> /\ len[1] = 0
                /\ head[1] = None /\ tail[1] = None
           ELSE /\ Elements(1) = Range(0, at) /\ len[1] = at
                /\ Elements(2) = Range(at, n) /\ len[2] = n - at

C5_Witness ==
    /\ JustCut("split_before") /\ fault = "none" /\ n >= 4 /\ at = 2
    /\ Elements(1) = <<0, 1>> /\ len[2] = n - 2

\* C6 as stated: split_before() returns the elements strictly before the
\* cursor and retains the cursor's element and everything after it; at a
\* node without a previous element the retained list is the full original
\* and the returned list is empty.
C6_ReturnsBefore ==
    [][\A l, r \in ListId : \A F \in {Forward(l)} :
         (/\ HasMut /\ HasFreeSlot(St) /\ l = list /\ r = FreeSlot(St)
          /\ current # None
          /\ Commit(split_before(St, r))
          /\ fault' = "none")
         => /\ Forward(r)' = SubSeq(F, 1, Pos(F, current) - 1)
            /\ Forward(l)' = SubSeq(F, Pos(F, current), Len(F))]_vars

\* C6 amended: whenever split_before() returns, it returns the cursor's
\* element and everything after it and retains the elements strictly before
\* the cursor; at ghost or at a node without a previous element the returned
\* list is the full original and the retained list is empty.
C6_ReturnsAtAndAfter ==
    [][\A l, r \in ListId : \A F \in {Forward(l)} :
         (/\ HasMut /\ HasFreeSlot(St) /\ l = list /\ r = FreeSlot(St)
          /\ Commit(split_before(St, r))
          /\ fault' = "none")
         => IF current = None \/ prev[current] = None
            THEN /\ Forward(r)' = F
                 /\ Forward(l)' = <<>> /\ head'[l] = None /\ tail'[l] = None
            ELSE /\ Forward(l)' = SubSeq(F, 1, Pos(F, current) - 1)
                 /\ Forward(r)' = SubSeq(F, Pos(F, current), Len(F))
                 /\ head'[r] = current /\ tail'[l] = prev[current]]_vars

C6_Witness ==
    /\ last = "split_before" /\ fault = "none"
    /\ live[1] /\ live[2]
    /\ Len(Forward(1)) >= 1 /\ Len(Forward(2)) >= 2

\* C10: split() at any position reached by moves, then insert_list of the
\* returned list at the cut point of the retained list, gives a list whose
\* forward element sequence and len are those of the original list.
C10_SplitThenSpliceRestores ==
    joined =>
        /\ fault = "none"
        /\ len[1] = n
        /\ Elements(1) = Range(0, n)
        /\ pc = "forward_done" => visited = Range(0, n)
        /\ pc = "reverse_done" => visited = Reverse(Range(0, n))

\* The list the cursor borrows, as the cursor's operations leave it alone:
\* its ends and len, every link, and the cursor.
CursorListUnchanged ==
    /\ head'[list] = head[list] /\ tail'[list] = tail[list]
    /\ len'[list] = len[list]
    /\ next' = next /\ prev' = prev /\ element' = element
    /\ released' = released
    /\ kind' = kind /\ list' = list
    /\ current' = current /\ current_len' = current_len

\* C11: insert_list(other) and insert_list_before(other) with an empty
\* other return and leave the receiving list unchanged: head, tail, len,
\* every node's links, and the cursor's position and offset, at every
\* cursor position including ghost.
C11_EmptySpliceIsNoOp ==
    [][\A o \in ListId :
         (/\ HasMut /\ live[o] /\ o # list
          /\ head[o] = None /\ tail[o] = None
          /\ \/ Commit(insert_list(St, o))
             \/ Commit(insert_list_before(St, o)))
         => /\ fault' = "none"
            /\ CursorListUnchanged]_vars

\* An empty list was spliced in before a node that has a node before it:
\* nothing has been released, as it is after every splice of a list with nodes.
C11_Witness ==
    /\ last = "insert_list_before" /\ fault = "none" /\ kind = "CursorMut"
    /\ \A x \in Node : released[x] = 0
    /\ current # None /\ prev[current] # None /\ current_len > 0

\* C12: pop() by a CursorMut at ghost returns the head element and leaves
\* the rest of the list in its order with len one less; with no head it
\* returns absent and changes nothing; and when it has removed the last
\* node the list is empty: len 0, head and tail absent.  So the teardown of
\* a list returns, with every node of the list released.
C12_PopFromGhostDrains ==
    [][/\ \A l \in ListId : \A F \in {Forward(l)} :
            (HasMut /\ l = list /\ current = None /\ Commit(pop(St)))
            => /\ fault' = "none"
               /\ current' = None
               /\ IF F = <<>>
                  THEN pop(St).ret = NoElem /\ CursorListUnchanged
                  ELSE /\ pop(St).ret = element[F[1]]
                       /\ released'[F[1]] = 1
                       /\ Forward(l)' = Tail(F)
                       /\ len'[l] = len[l] - 1
                       /\ Len(F) = 1 =>
                             len'[l] = 0 /\ head'[l] = None /\ tail'[l] = None
       /\ \A l \in ListId : \A F \in {Forward(l)} :
            (/\ Running /\ live[l]
             /\ Commit(drop(IF list = l THEN NoCursor(St) ELSE St, l)))
            => /\ fault' = "none"
               /\ ~live'[l]
               /\ \A k \in 1..Len(F) : released'[F[k]] = 1]_vars

\* One move of the cursor of s, of either kind, in direction dir.
Step(s, dir) ==
    IF s.kind = "Cursor"
    THEN (IF dir = "next" THEN Cursor_move_next(s) ELSE Cursor_move_prev(s))
    ELSE (IF dir = "next" THEN CursorMut_move_next(s) ELSE CursorMut_move_prev(s))

\* k consecutive moves, as far as they return.
RECURSIVE Moves(_, _, _)
Moves(s, dir, k) ==
    IF k = 0 \/ Bad(s) THEN s ELSE Moves(Step(s, dir), dir, k - 1)

\* C13: for a Cursor and for a CursorMut on a list of n nodes, a move that
\* returns goes: move_next from ghost to the head (it stays at ghost when
\* n = 0) and from the tail to ghost; move_prev from ghost to the tail and
\* from the head to ghost.  n+1 moves in one direction, when they return,
\* come back to the position they started from, and current() is absent
\* exactly at ghost.
C13_GhostWraparound ==
    HasMut =>
      \A s \in {St, as_cursor(St)} :
        LET F == Forward(list)
            nxt == Step(s, "next")
            prv == Step(s, "prev")
            round == Moves(s, "next", Len(F) + 1)
            back == Moves(s, "prev", Len(F) + 1)
            cur == Cursor_current(s)
        IN  /\ (~Bad(nxt) /\ current = None) =>
                  /\ nxt.current = head[list]
                  /\ F = <<>> => nxt.current = None
            /\ (~Bad(nxt) /\ current # None /\ current = tail[list]) =>
                  nxt.current = None
            /\ (~Bad(prv) /\ current = None) => prv.current = tail[list]
            /\ (~Bad(prv) /\ current # None /\ current = head[list]) =>
                  prv.current = None
            /\ ~Bad(round) => round.current = current
            /\ ~Bad(back) => back.current = current
            /\ ~Bad(cur) => ((cur.ret = NoElem) <=> (current = None))

\* move_next has taken the cursor from the tail of a list of three to ghost.
C13_Witness ==
    /\ last = "move_next" /\ fault = "none" /\ kind = "CursorMut"
    /\ current = None /\ Len(Forward(list)) = 3 /\ len[list] = 3
    /\ \A x \in Node : released[x] = 0
    /\ ~Bad(Moves(St, "prev", 4)) /\ ~Bad(Moves(as_cursor(St), "next", 4))

\* C14: while a CursorMut exists, after any sequence of move_next,
\* move_prev, insert, insert_before, insert_list, insert_list_before, pop
\* and pop_prev, its offset satisfies 0 <= current_len <= list.len.
C14_OffsetInRange ==
    HasMut => (0 <= current_len /\ current_len <= len[list])

C16_OffsetMatchesPosition ==
    /\ HasMut => current_len = Pos(Forward(list), current)
    /\ (last = "split" /\ fault = "none") =>
          \A l \in Live : len[l] = Len(Forward(l))

C18_InsertBeforeCursor ==
    [][\A l \in ListId : \A F \in {Forward(l)} : \A p \in {Pos(F, current)} :
       \A node \in {nalloc + 1} :
         (/\ HasMut /\ l = list /\ nalloc < MaxAlloc
          /\ Commit(insert_before(St, nalloc))
          /\ fault' = "none")
         => /\ nalloc' = node /\ released' = released
            /\ element'[node] = nalloc
            /\ (IF current' = None THEN tail'[l] ELSE prev'[current']) = node
            /\ current' = current
            /\ len'[l] = (len[l] + 1) % UsizeModulus
            /\ current_len' = current_len + 1
            /\ Forward(l)' = IF current = None THEN F \o <<node>>
                             ELSE SubSeq(F, 1, p - 1) \o <<node>>
                                      \o SubSeq(F, p, Len(F))
            /\ current = None => tail'[l] = node]_vars

\* C19: whenever pop_prev() returns: with no element before the cursor (on
\* the head, or at ghost on an empty list) it returns absent and changes
\* nothing; otherwise it removes and returns the element immediately before
\* the cursor (the tail when at ghost), links the removed node's neighbours
\* to each other, leaves the cursor where it was, and decreases both len and
\* the offset by exactly 1.
C19_PopPrevBeforeCursor ==
    [][\A l \in ListId : \A F \in {Forward(l)} :
         (/\ HasMut /\ l = list
          /\ Commit(pop_prev(St))
          /\ fault' = "none")
         => \A node \in {CursorMut_prev(St)} :
            IF node = None
            THEN pop_prev(St).ret = NoElem /\ CursorListUnchanged
            ELSE \A np \in {prev[node]} :
                 /\ pop_prev(St).ret = element[node]
                 /\ released'[node] = 1
                 /\ current' = current
                 /\ Forward(l)' = SelectSeq(F, LAMBDA x : x # node)
                 /\ IF np = None THEN head'[l] = current ELSE next'[np] = current
                 /\ IF current = None THEN tail'[l] = np ELSE prev'[current] = np
                 /\ len'[l] = len[l] - 1
                 /\ current_len' = current_len - 1]_vars

\* C20: whenever insert_list_before(other) returns with other non-empty, the
\* forward traversal of the receiving list is (nodes strictly before the
\* cursor) ++ (other's nodes in order) ++ (the cursor's node and the nodes
\* after it), all of them nodes that still exist; len has grown by other's
\* len (in usize arithmetic); the cursor is on the same node (or at ghost);
\* and the offset has grown by other's len if it was nonzero and is
\* unchanged if it was 0.
C20_InsertListBeforeCursor ==
    [][\A l, o \in ListId : \A F \in {Forward(l)} : \A G \in {Forward(o)} :
       \A p \in {Pos(F, current)} :
         (/\ HasMut /\ l = list /\ live[o] /\ o # l /\ head[o] # None
          /\ Commit(insert_list_before(St, o))
          /\ fault' = "none")
         => /\ Forward(l)' = IF current = None THEN F \o G
                             ELSE SubSeq(F, 1, p - 1) \o G \o SubSeq(F, p, Len(F))
            /\ \A k \in 1..Len(G) : released'[G[k]] = 0
            /\ len'[l] = (len[l] + len[o]) % UsizeModulus
            /\ current' = current
            /\ current_len' = IF current_len = 0 THEN 0
                              ELSE current_len + len[o]]_vars

\* The cursor and the heap of s are those of the current state.
SameAsNow(s) ==
    /\ s.current = current /\ s.current_len = current_len
    /\ s.head = head /\ s.tail = tail /\ s.len = len
    /\ s.next = next /\ s.prev = prev /\ s.element = element
    /\ s.released = released

\* C21: for a CursorMut in any reachable state, move_next() followed by
\* move_prev(), and move_prev() followed by move_next(), when both return,
\* restore the cursor's position and its offset and leave the list (head,
\* tail, len, all links) unchanged.
C21_MoveRoundTrip ==
    HasMut =>
        LET there == CursorMut_move_prev(CursorMut_move_next(St))
            back == CursorMut_move_next(CursorMut_move_prev(St))
        IN  /\ (~Bad(CursorMut_move_next(St)) /\ ~Bad(there)) => SameAsNow(there)
            /\ (~Bad(CursorMut_move_prev(St)) /\ ~Bad(back)) => SameAsNow(back)

====
